---- MODULE Spec2Model ----
(***************************************************************************)
(* AsyncManager<IoType> of septentrio_gnss_driver: the telegram framing    *)
(* state machine (readSync / readSbfHeader / readSbf / readStringElements) *)
(* and the connection supervisor (connect, send, watchdog, destructor).    *)
(*                                                                         *)
(* One behaviour is one run of one AsyncManager object.  The transport     *)
(* delivers the bytes of `stream` in order; `pos` bytes have been consumed.*)
(* The io_service is modelled by its work: the outstanding read            *)
(* (`pending`), the posted handlers (`posted`) and the writes in flight    *)
(* (`writes`).                                                             *)
(***************************************************************************)
EXTENDS Integers, Sequences, FiniteSets, TLC

(***************************************************************************)
(* Bounds of the model.                                                    *)
(***************************************************************************)
\* segments per input stream
MaxSegs == 2
\* send() calls of the caller where the order of the writes is looked at
MaxOrderedSends == 2
\* transient read faults (error or short read) the transport may inject
MaxFaults == 1
\* send() calls of the caller
MaxSends == 1
\* writes in flight at a time
MaxWrites == 1

(***************************************************************************)
(* telegram.hpp: wire constants (header not among the sources).            *)
(***************************************************************************)
SYNC_BYTE_1 == 36
SBF_SYNC_BYTE_2 == 64
NMEA_SYNC_BYTE_2 == 71
NMEA_SYNC_BYTE_3 == 80
NMEA_INS_SYNC_BYTE_2 == 80
NMEA_INS_SYNC_BYTE_3 == 83
RESPONSE_SYNC_BYTE_2 == 82
RESPONSE_SYNC_BYTE_3 == 58
RESPONSE_SYNC_BYTE_3a == 33
ERROR_SYNC_BYTE_3 == 63
CR == 13
LF == 10
CONNECTION_DESCRIPTOR_FOOTER == 62
SBF_HEADER_SIZE == 8
\* the hard maximum of a declared block length, scaled to the model
MAX_SBF_SIZE == 10
\* width of std::size_t, scaled to the integers of the model checker
SIZE_T_BITS == 30

Min(a, b) == IF a < b THEN a ELSE b

(***************************************************************************)
(* Integrity checker (crc.hpp, parsing_utilities.hpp): CRC-16-CCITT over   *)
(* the bytes after the checksum field through the declared length.         *)
(***************************************************************************)
\* bitwise exclusive or of two n-bit numbers
BitXor[a \in Nat, b \in Nat, n \in Nat] ==
    IF n = 0 THEN 0
    ELSE (((a % 2) + (b % 2)) % 2) + 2 * BitXor[a \div 2, b \div 2, n - 1]

\* one byte into the CRC (polynomial 0x1021), in the byte-wise form
CrcByte[crc \in Nat, b \in Nat] ==
    LET x0 == BitXor[crc \div 256, b, 8]
        x  == BitXor[x0, x0 \div 16, 8]
    IN  BitXor[BitXor[BitXor[(crc * 256) % 65536, (x * 4096) % 65536, 16],
                      x * 32, 16],
               x, 16]

compute16CCITT(buf, crc0) ==
    LET f[i \in 0..Len(buf)] ==
            IF i = 0 THEN crc0 ELSE CrcByte[f[i - 1], buf[i]]
    IN  f[Len(buf)]

\* bytes 6-7, little endian
getLength(message) == message[7] + 256 * message[8]

\* bytes 2-3 hold the checksum of bytes 4 .. length-1
isValid(message) ==
    compute16CCITT(SubSeq(message, 5, Min(getLength(message), Len(message))), 0)
        = message[3] + 256 * message[4]

(***************************************************************************)
(* Input streams: concatenations of at most MaxSegs segments.              *)
(***************************************************************************)
SbfHeaderBytes(len, body) ==
    LET rest == <<1, 0, len % 256, len \div 256>> \o body
        c    == compute16CCITT(rest, 0)
    IN  <<SYNC_BYTE_1, SBF_SYNC_BYTE_2, c % 256, c \div 256>> \o rest

\* a well-formed block: declared length = header + body, checksum correct
SbfBlock(body) == SbfHeaderBytes(SBF_HEADER_SIZE + Len(body), body)

\* a block whose checksum field is off by one
SbfBadCrc(body) ==
    LET b == SbfBlock(body) IN [b EXCEPT ![3] = (b[3] + 1) % 256]

\* a header alone, declaring `len`
SbfHeaderOnly(len) == SbfHeaderBytes(len, <<>>)

FILL == 65

TextLine(b2, b3, body) == <<SYNC_BYTE_1, b2, b3>> \o body \o <<CR, LF>>

\* well-formed binary blocks: empty body, and a body at the maximum length
\* holding bytes that are terminators on the text path
ValidSbf ==
    { SbfBlock(<<>>), SbfBlock(<<SYNC_BYTE_1, LF>>) }

\* well-formed text lines without terminator bytes in the body
ValidPlainText ==
    { TextLine(NMEA_SYNC_BYTE_2, NMEA_SYNC_BYTE_3, <<FILL>>),
      TextLine(NMEA_INS_SYNC_BYTE_2, NMEA_INS_SYNC_BYTE_3, <<FILL>>),
      TextLine(RESPONSE_SYNC_BYTE_2, RESPONSE_SYNC_BYTE_3, <<>>),
      TextLine(RESPONSE_SYNC_BYTE_2, RESPONSE_SYNC_BYTE_3a, <<FILL>>),
      TextLine(RESPONSE_SYNC_BYTE_2, ERROR_SYNC_BYTE_3, <<FILL>>) }

\* a well-formed text line with the footer byte in its body
ValidFooterText ==
    { TextLine(RESPONSE_SYNC_BYTE_2, RESPONSE_SYNC_BYTE_3,
               <<FILL, CONNECTION_DESCRIPTOR_FOOTER, FILL>>) }

ValidTelegrams == ValidSbf \cup ValidPlainText \cup ValidFooterText

\* byte sequences that are no telegram and no prefix of one: stray bytes,
\* a line feed without carriage return, wrong second and third sync bytes,
\* a block with a wrong checksum, headers declaring too much and too little
Garbage ==
    { <<FILL>>,
      <<FILL, LF>>,
      <<SYNC_BYTE_1, FILL>>,
      <<SYNC_BYTE_1, NMEA_SYNC_BYTE_2, FILL>>,
      <<SYNC_BYTE_1, NMEA_SYNC_BYTE_2, SYNC_BYTE_1, RESPONSE_SYNC_BYTE_2, CR>>,
      <<SYNC_BYTE_1, NMEA_SYNC_BYTE_2, NMEA_SYNC_BYTE_3, FILL, LF>>,
      SbfBadCrc(<<FILL>>),
      SbfHeaderOnly(MAX_SBF_SIZE + 1),
      SbfHeaderOnly(SBF_HEADER_SIZE - 1) }

\* a text line cut off before its line feed
Unterminated ==
    { <<SYNC_BYTE_1, NMEA_SYNC_BYTE_2, NMEA_SYNC_BYTE_3, FILL, CR>> }

\* lines of unrecognized text, which the driver delivers as such
UnknownFrames ==
    { <<FILL, CR, LF>>,
      <<FILL, CONNECTION_DESCRIPTOR_FOOTER>> }

Segments == ValidTelegrams \cup Garbage \cup Unterminated \cup UnknownFrames

\* the sequences of at most n segments
RECURSIVE SegSeqs(_)
SegSeqs(n) ==
    IF n = 0 THEN { <<>> }
    ELSE SegSeqs(n - 1)
            \cup { Append(ss, s) : ss \in SegSeqs(n - 1), s \in Segments }

Concat(ss) ==
    LET f[i \in 0..Len(ss)] == IF i = 0 THEN <<>> ELSE f[i - 1] \o ss[i]
    IN  f[Len(ss)]

\* the segment sequences the whole program is run on: two telegrams, a
\* header that declares too much before a telegram, a header that declares
\* too little
SupervisorSegs ==
    { << TextLine(RESPONSE_SYNC_BYTE_2, RESPONSE_SYNC_BYTE_3, <<>>),
         SbfBlock(<<>>) >>,
      << SbfHeaderOnly(MAX_SBF_SIZE + 1),
         TextLine(RESPONSE_SYNC_BYTE_2, RESPONSE_SYNC_BYTE_3, <<>>) >>,
      << SbfHeaderOnly(SBF_HEADER_SIZE - 1), <<FILL>> >> }

(***************************************************************************)
(* State.                                                                  *)
(***************************************************************************)
VARIABLES
    segs,        \* the segments the peer sends, in order
    stream,      \* their bytes: what the transport will deliver
    pos,         \* bytes of stream consumed by completed reads
    faults,      \* transient read faults injected so far
    link,        \* ioInterface_: "down", "up", "closed"
    replay,      \* settings: read_from_sbf_log || read_from_pcap
    isTcp,       \* std::is_same<TcpIo, IoType>::value
    telegram,    \* *telegram_ (id 0: the null pointer)
    pending,     \* the outstanding async_read, by its completion handler
    sbfLength,   \* the length captured by readSbf's handler
    buf,         \* buf_[0]
    queue,       \* telegramQueue_: the telegrams pushed, oldest first
    running,     \* running_
    ioThread,    \* ioThread_: "unstarted", "running", "finished", "joined"
    wdPc,        \* watchdogThread_ and its position in runWatchdog
    stopped,     \* ioService_->stopped()
    posted,      \* handlers posted to ioService_, oldest first
    writes,      \* async_write operations in flight
    dtorPc,      \* position of ~AsyncManager
    connectRet,  \* what connect() returned last: "none", "fail", "ok"
    sends,       \* the send() calls made: the payload of each (0: empty)
    written,     \* the payloads whose async_write was started, in order
    orphans,     \* reads left outstanding by a restart of the framing
    aborted      \* std::terminate was called, or the heap was corrupted

transportVars == <<segs, stream, pos, faults, link, replay, isTcp>>
framingVars   == <<telegram, pending, sbfLength, buf, queue>>
superVars     == <<running, ioThread, wdPc, stopped, posted, writes,
                   dtorPc, connectRet, sends, written, orphans, aborted>>
vars == <<segs, stream, pos, faults, link, replay, isTcp, telegram, pending,
          sbfLength, buf, queue, running, ioThread, wdPc, stopped, posted,
          writes, dtorPc, connectRet, sends, written, orphans, aborted>>

(***************************************************************************)
(* Telegram (telegram.hpp) and the heap identity of its instances.         *)
(***************************************************************************)
NullTelegram == [id |-> 0, stamp |-> 0, type |-> "NONE", message |-> <<>>]

\* Telegram(): three zero bytes, no format, no timestamp
Telegram(id) ==
    [id |-> id, stamp |-> 0, type |-> "UNKNOWN", message |-> <<0, 0, 0>>]

\* operator new: an address held neither by telegram_ nor by the queue
FreshId(t, q) ==
    LET used == {t.id} \cup { q[i].id : i \in 1..Len(q) }
    IN  CHOOSE i \in 1..(Len(q) + 2) :
            /\ i \notin used
            /\ \A j \in 1..(Len(q) + 2) : j \notin used => i <= j

\* std::vector::resize
Resize(m, n) == [i \in 1..n |-> IF i <= Len(m) THEN m[i] ELSE 0]

\* the bytes a read stores at message.data() + off
WriteAt(m, off, data) ==
    [i \in 1..Len(m) |->
        IF i > off /\ i <= off + Len(data) THEN data[i - off] ELSE m[i]]

\* a clock that is never read
getTime_Never(p) == 0

\* node_->getTime() in the handler of the read that brought the stream to p
getTime(p) == p

(***************************************************************************)
(* The framing state machine.  Each operator gives the framing state a     *)
(* function of the source leaves behind: the telegram, the read it issued, *)
(* the length its handler captured, and the queue.                         *)
(***************************************************************************)
Issue(t, kind, len, q) ==
    [telegram |-> t, pending |-> kind, sbfLength |-> len, queue |-> q]

SyncKind(index) ==
    CASE index = 0 -> "readSync0"
      [] index = 1 -> "readSync1"
      [] index = 2 -> "readSync2"

readSync(index, t, q) == Issue(t, SyncKind(index), 0, q)

\* a Telegram allocated only when there is none: the next read goes to the
\* buffer already in use
resync_Reuse(t, q) ==
    readSync(0, IF t.id = 0 THEN Telegram(FreshId(t, q)) ELSE t, q)

resync(t, q) == readSync(0, Telegram(FreshId(t, q)), q)

push(t, q) == Append(q, t)

readStringElements(t, q) == Issue(t, "readStringElements", 0, q)

readUnknown(t, q) ==
    readStringElements([t EXCEPT !.message = Resize(@, 1)], q)

readString(t, q) ==
    readStringElements([t EXCEPT !.message = Resize(@, 3)], q)

readSbfHeader(t, q) ==
    Issue([t EXCEPT !.message = Resize(@, SBF_HEADER_SIZE)],
          "readSbfHeader", 0, q)

\* the body read asks for no byte beyond the header
readSbf_NoBody(length, t, q) ==
    Issue([t EXCEPT !.message = Resize(@, length)], "readSbf", SBF_HEADER_SIZE, q)

readSbf(length, t, q) ==
    Issue([t EXCEPT !.message = Resize(@, length)], "readSbf", length, q)

\* length - SBF_HEADER_SIZE in std::size_t
BodyCount(length) == (length - SBF_HEADER_SIZE) % (2 ^ SIZE_T_BITS)

\* the second sync byte selects the format
onSync1(currByte, t, q) ==
    CASE currByte = SBF_SYNC_BYTE_2 ->
            readSbfHeader([t EXCEPT !.type = "SBF"], q)
      [] currByte = NMEA_SYNC_BYTE_2 ->
            readSync(2, [t EXCEPT !.type = "NMEA"], q)
      [] currByte = NMEA_INS_SYNC_BYTE_2 ->
            readSync(2, [t EXCEPT !.type = "NMEA_INS"], q)
      [] currByte = RESPONSE_SYNC_BYTE_2 ->
            readSync(2, [t EXCEPT !.type = "RESPONSE"], q)
      [] OTHER -> resync(t, q)

\* every third byte taken as confirmation
onSync2_AnyByte(currByte, t, q) ==
    CASE currByte = ERROR_SYNC_BYTE_3 ->
            IF t.type = "RESPONSE"
            THEN readString([t EXCEPT !.type = "ERROR_RESPONSE"], q)
            ELSE resync(t, q)
      [] OTHER -> readString(t, q)

\* the third sync byte confirms the format
onSync2(currByte, t, q) ==
    CASE currByte = NMEA_SYNC_BYTE_3 ->
            IF t.type = "NMEA" THEN readString(t, q) ELSE resync(t, q)
      [] currByte = NMEA_INS_SYNC_BYTE_3 ->
            IF t.type = "NMEA_INS" THEN readString(t, q) ELSE resync(t, q)
      [] currByte = RESPONSE_SYNC_BYTE_3 ->
            IF t.type = "RESPONSE" THEN readString(t, q) ELSE resync(t, q)
      [] currByte = RESPONSE_SYNC_BYTE_3a ->
            IF t.type = "RESPONSE" THEN readString(t, q) ELSE resync(t, q)
      [] currByte = ERROR_SYNC_BYTE_3 ->
            IF t.type = "RESPONSE"
            THEN readString([t EXCEPT !.type = "ERROR_RESPONSE"], q)
            ELSE resync(t, q)
      [] OTHER -> resync(t, q)

\* sync byte 1 recognised at index 0 only, every later index left to the
\* switch
readSyncHandler_SyncAtStart(index, c, now, t0, q) ==
    LET t        == [t0 EXCEPT !.message = WriteAt(@, index, c.data)]
        currByte == t.message[index + 1]
    IN  IF ~c.ec
        THEN IF c.numBytes = 1
             THEN IF currByte = SYNC_BYTE_1 /\ index = 0
                  THEN readSync(1, [t EXCEPT !.stamp = now], q)
                  ELSE CASE index = 0 ->
                              readUnknown([t EXCEPT !.type = "UNKNOWN"], q)
                         [] index = 1 -> onSync1(currByte, t, q)
                         [] index = 2 -> onSync2(currByte, t, q)
             ELSE resync(t, q)
        ELSE resync(t, q)

\* completion handler of readSync<index>; c is the completion (ec, numBytes,
\* the bytes stored), now the handler's node_->getTime()
readSyncHandler(index, c, now, t0, q) ==
    LET t        == [t0 EXCEPT !.message = WriteAt(@, index, c.data)]
        currByte == t.message[index + 1]
    IN  IF ~c.ec
        THEN IF c.numBytes = 1
             THEN IF currByte = SYNC_BYTE_1
                  THEN readSync(1, [t EXCEPT !.stamp = now], q)
                  ELSE CASE index = 0 ->
                              readUnknown([t EXCEPT !.type = "UNKNOWN"], q)
                         [] index = 1 -> onSync1(currByte, t, q)
                         [] index = 2 -> onSync2(currByte, t, q)
             ELSE resync(t, q)
        ELSE resync(t, q)

\* the comparison widened by one: a length equal to the maximum is refused
sbfHeaderLength_Ge(length, t, q) ==
    IF length >= MAX_SBF_SIZE
    THEN Issue(t, "none", 0, q)
    ELSE readSbf(length, t, q)

\* what the header handler does with the decoded length
sbfHeaderLength(length, t, q) ==
    IF length > MAX_SBF_SIZE
    THEN Issue(t, "none", 0, q)
    ELSE readSbf(length, t, q)

\* completion handler of readSbfHeader
readSbfHeaderHandler(c, t0, q) ==
    LET t == [t0 EXCEPT !.message = WriteAt(@, 2, c.data)]
    IN  IF ~c.ec
        THEN IF c.numBytes = SBF_HEADER_SIZE - 2
             THEN sbfHeaderLength(getLength(t.message), t, q)
             ELSE resync(t, q)
        ELSE resync(t, q)

\* the integrity check left out
sbfBodyComplete_NoCrc(t, q) == resync(t, push(t, q))

\* what the body handler does once the byte count is right
sbfBodyComplete(t, q) ==
    IF isValid(t.message) THEN resync(t, push(t, q)) ELSE resync(t, q)

\* completion handler of readSbf(length)
readSbfHandler(c, length, t0, q) ==
    LET t == [t0 EXCEPT !.message = WriteAt(@, SBF_HEADER_SIZE, c.data)]
    IN  IF ~c.ec
        THEN IF c.numBytes = BodyCount(length)
             THEN sbfBodyComplete(t, q)
             ELSE resync(t, q)
        ELSE resync(t, q)

\* the abandoned buffer is pushed before the new telegram is started
onStringSync_Push(b, now, t, q) ==
    LET n == Telegram(FreshId(t, push(t, q)))
    IN  readSync(1, [n EXCEPT !.message[1] = b, !.stamp = now], push(t, q))

\* case SYNC_BYTE_1 of readStringElements
onStringSync(b, now, t, q) ==
    LET n == Telegram(FreshId(t, q))
    IN  readSync(1, [n EXCEPT !.message[1] = b, !.stamp = now], q)

\* the carriage return looked for one byte too late: at the line feed itself
onStringLf_Last(t, q) ==
    IF t.message[Len(t.message)] = CR
    THEN resync(t, push(t, q))
    ELSE resync(t, q)

\* case LF of readStringElements
onStringLf(t, q) ==
    IF t.message[Len(t.message) - 1] = CR
    THEN resync(t, push(t, q))
    ELSE resync(t, q)

\* case CONNECTION_DESCRIPTOR_FOOTER of readStringElements
onStringFooter(t0, q) ==
    LET t == [t0 EXCEPT !.type = "CONNECTION_DESCRIPTOR"]
    IN  resync(t, push(t, q))

\* completion handler of readStringElements; b is buf_[0] after the read
readStringElementsHandler(c, b, now, t0, q) ==
    IF ~c.ec
    THEN IF c.numBytes = 1
         THEN LET t == [t0 EXCEPT !.message = Append(@, b)]
              IN  CASE b = SYNC_BYTE_1 -> onStringSync(b, now, t, q)
                    [] b = LF -> onStringLf(t, q)
                    [] b = CONNECTION_DESCRIPTOR_FOOTER -> onStringFooter(t, q)
                    [] OTHER -> readStringElements(t, q)
         ELSE resync(t0, q)
    ELSE resync(t0, q)

(***************************************************************************)
(* The transport: how an async_read of n bytes can complete.               *)
(***************************************************************************)
Avail == IF link = "up" THEN Len(stream) - pos ELSE 0

Completion(ec, k, fault) ==
    [ec |-> ec, numBytes |-> k, data |-> SubSeq(stream, pos + 1, pos + k),
     fault |-> fault]

\* all n bytes arrived
Full(n) == IF link = "up" /\ n <= Avail THEN {Completion(FALSE, n, FALSE)} ELSE {}

\* a transient fault: fewer than n bytes, with or without an error code
Faulty(n) ==
    IF link = "up" /\ faults < MaxFaults
    THEN { Completion(e, k, TRUE) : e \in BOOLEAN, k \in 0..Min(n - 1, Avail) }
    ELSE {}

\* the descriptor was closed or the connection is lost: the read ends with
\* an error
Aborted(n) == IF link \in {"closed", "lost"} THEN {Completion(TRUE, 0, FALSE)} ELSE {}

ReadOutcomes(n) == Full(n) \cup Faulty(n) \cup Aborted(n)

Apply(r) ==
    /\ telegram' = r.telegram
    /\ pending' = r.pending
    /\ sbfLength' = r.sbfLength
    /\ queue' = r.queue

Consume(c) ==
    /\ pos' = pos + c.numBytes
    /\ faults' = IF c.fault THEN faults + 1 ELSE faults

(***************************************************************************)
(* The I/O-processing task: ioService_->run() in ioThread_.                *)
(***************************************************************************)
IoCanRun == ioThread = "running" /\ ~stopped /\ ~aborted

SyncIndex(kind) ==
    CASE kind = "readSync0" -> 0
      [] kind = "readSync1" -> 1
      [] kind = "readSync2" -> 2

ReadSyncDone ==
    /\ IoCanRun
    /\ pending \in {"readSync0", "readSync1", "readSync2"}
    /\ \E c \in ReadOutcomes(1) :
          /\ Apply(readSyncHandler(SyncIndex(pending), c,
                                   getTime(pos + c.numBytes), telegram, queue))
          /\ Consume(c)
    /\ UNCHANGED <<segs, stream, link, replay, isTcp, buf, superVars>>

ReadSbfHeaderDone ==
    /\ IoCanRun
    /\ pending = "readSbfHeader"
    /\ \E c \in ReadOutcomes(SBF_HEADER_SIZE - 2) :
          /\ Apply(readSbfHeaderHandler(c, telegram, queue))
          /\ Consume(c)
    /\ UNCHANGED <<segs, stream, link, replay, isTcp, buf, superVars>>

\* the completions of a body read that stay inside the buffer
BodyOutcomes(length) ==
    IF length >= SBF_HEADER_SIZE
    THEN ReadOutcomes(BodyCount(length))
    ELSE { c \in ReadOutcomes(BodyCount(length)) : c.numBytes = 0 }

ReadSbfDone ==
    /\ IoCanRun
    /\ pending = "readSbf"
    /\ \E c \in BodyOutcomes(sbfLength) :
          /\ Apply(readSbfHandler(c, sbfLength, telegram, queue))
          /\ Consume(c)
    /\ UNCHANGED <<segs, stream, link, replay, isTcp, buf, superVars>>

\* readSbf(length) with length < SBF_HEADER_SIZE: the buffer handed to
\* async_read starts behind the shrunk vector and has a wrapped size; bytes
\* that arrive are stored out of bounds.  The process crashes or goes on
\* with the read still outstanding.
ReadSbfOverflow ==
    /\ IoCanRun
    /\ pending = "readSbf"
    /\ sbfLength < SBF_HEADER_SIZE
    /\ \E k \in 1..Avail : pos' = pos + k
    /\ aborted' \in BOOLEAN
    /\ UNCHANGED <<segs, stream, faults, link, replay, isTcp, framingVars,
                   running, ioThread, wdPc, stopped, posted, writes, dtorPc,
                   connectRet, sends, written, orphans>>

ReadStringElementsDone ==
    /\ IoCanRun
    /\ pending = "readStringElements"
    /\ \E c \in ReadOutcomes(1) :
          LET b == IF c.numBytes = 1 THEN c.data[1] ELSE buf
          IN  /\ Apply(readStringElementsHandler(c, b, getTime(pos + c.numBytes),
                                                 telegram, queue))
              /\ buf' = b
              /\ Consume(c)
    /\ UNCHANGED <<segs, stream, link, replay, isTcp, superVars>>

\* a posted handler runs: write(cmd) starts an async_write, the lambda of
\* close() closes the transport
IoRunPosted ==
    /\ IoCanRun
    /\ posted # <<>>
    /\ posted' = Tail(posted)
    /\ IF Head(posted).op = "close"
       THEN link' = "closed" /\ writes' = writes /\ written' = written
       ELSE /\ link' = link
            /\ writes' = writes + 1
            /\ written' = Append(written, Head(posted).cmd)
    /\ UNCHANGED <<segs, stream, pos, faults, replay, isTcp, framingVars,
                   running, ioThread, wdPc, stopped, dtorPc, connectRet,
                   sends, orphans, aborted>>

\* an async_write completes; its handler only logs
WriteDone ==
    /\ IoCanRun
    /\ writes > 0
    /\ writes' = writes - 1
    /\ UNCHANGED <<transportVars, framingVars, running, ioThread, wdPc,
                   stopped, posted, dtorPc, connectRet, sends, written,
                   orphans, aborted>>

\* a read left over from before the framing was restarted completes.  Its
\* buffer is in the Telegram that the restart replaced: a byte that arrives
\* is written to freed memory.  On a closed or lost transport it ends with
\* an error and no byte, and its handler calls resync(), which replaces
\* telegram_ and issues the next read of this second chain
OrphanReadDone ==
    /\ IoCanRun
    /\ orphans > 0
    /\ IF link = "up"
       THEN /\ Avail > 0
            /\ pos' = pos + 1
            /\ aborted' = TRUE
            /\ telegram' = telegram
       ELSE /\ pos' = pos
            /\ aborted' = aborted
            /\ telegram' = Telegram(FreshId(telegram, queue))
    /\ UNCHANGED <<segs, stream, faults, link, replay, isTcp, pending,
                   sbfLength, buf, queue, running, ioThread, wdPc, stopped,
                   posted, writes, dtorPc, connectRet, sends, written, orphans>>

NoWork == pending = "none" /\ orphans = 0 /\ posted = <<>> /\ writes = 0

\* run() returns: the service was stopped or ran out of work
IoRunExit ==
    /\ ioThread = "running"
    /\ ~aborted
    /\ stopped \/ NoWork
    /\ ioThread' = "finished"
    /\ stopped' = TRUE
    /\ UNCHANGED <<transportVars, framingVars, running, wdPc, posted, writes,
                   dtorPc, connectRet, sends, written, orphans, aborted>>

(***************************************************************************)
(* The caller: connect(), send(), ~AsyncManager().                         *)
(***************************************************************************)
\* the watchdog thread never created
receive_NoWatchdog(wd) ==
    /\ Apply(resync(telegram, queue))
    /\ orphans' = IF pending = "none" THEN orphans ELSE orphans + 1
    /\ ioThread' = "running"
    /\ wdPc' = wd

\* receive(): resync(), then the processing thread; the watchdog thread is
\* created when watchdogThread_ is not joinable.  resync() issues its read
\* whether or not the service still holds one from before
receive(wd) ==
    /\ Apply(resync(telegram, queue))
    /\ orphans' = IF pending = "none" THEN orphans ELSE orphans + 1
    /\ ioThread' = "running"
    /\ wdPc' = IF wd = "unstarted" THEN "top" ELSE wd

\* receive() called before the result of the transport connect is looked at
Connect_ReceiveFirst ==
    /\ dtorPc = "idle"
    /\ connectRet # "ok"
    /\ ~aborted
    /\ running' = TRUE
    /\ receive(wdPc)
    /\ \E ok \in BOOLEAN :
          IF ok
          THEN link' = "up" /\ connectRet' = "ok"
          ELSE link' = link /\ connectRet' = "fail"
    /\ UNCHANGED <<segs, stream, pos, faults, replay, isTcp, buf, stopped,
                   posted, writes, dtorPc, sends, written, aborted>>

\* connect(), called until it has succeeded once
Connect ==
    /\ dtorPc = "idle"
    /\ connectRet # "ok"
    /\ ~aborted
    /\ running' = TRUE
    /\ \E ok \in BOOLEAN :
          IF ok
          THEN /\ link' = "up"
               /\ receive(wdPc)
               /\ connectRet' = "ok"
          ELSE /\ connectRet' = "fail"
               /\ UNCHANGED <<link, framingVars, ioThread, wdPc, orphans>>
    /\ UNCHANGED <<segs, stream, pos, faults, replay, isTcp, buf, stopped,
                   posted, writes, dtorPc, sends, written, aborted>>

\* a handler posted to ioService_: write(cmd) or the lambda of close()
Handler(op, cmd) == [op |-> op, cmd |-> cmd]

\* send(cmd): an empty cmd is logged and dropped, any other is posted; a
\* payload that is not empty is told from the others by the number of the call
\* an empty cmd is posted like any other
SendUpTo_PostEmpty(limit) ==
    /\ dtorPc = "idle"
    /\ ~aborted
    /\ Len(sends) < limit
    /\ \E cmd \in {0, Len(sends) + 1} :
          /\ sends' = Append(sends, cmd)
          /\ posted' = Append(posted, Handler("write", cmd))
    /\ UNCHANGED <<transportVars, framingVars, running, ioThread, wdPc,
                   stopped, writes, written, orphans, dtorPc, connectRet,
                   aborted>>

\* the handler is put in front of those already posted
SendUpTo_Front(limit) ==
    /\ dtorPc = "idle"
    /\ ~aborted
    /\ Len(sends) < limit
    /\ \E cmd \in {0, Len(sends) + 1} :
          /\ sends' = Append(sends, cmd)
          /\ posted' = IF cmd = 0
                       THEN posted
                       ELSE <<Handler("write", cmd)>> \o posted
    /\ UNCHANGED <<transportVars, framingVars, running, ioThread, wdPc,
                   stopped, writes, written, orphans, dtorPc, connectRet,
                   aborted>>

SendUpTo(limit) ==
    /\ dtorPc = "idle"
    /\ ~aborted
    /\ Len(sends) < limit
    /\ \E cmd \in {0, Len(sends) + 1} :
          /\ sends' = Append(sends, cmd)
          /\ posted' = IF cmd = 0
                       THEN posted
                       ELSE Append(posted, Handler("write", cmd))
    /\ UNCHANGED <<transportVars, framingVars, running, ioThread, wdPc,
                   stopped, writes, written, orphans, dtorPc, connectRet,
                   aborted>>

Send == SendUpTo(MaxSends)

\* ~AsyncManager(): running_ = false
DtorBegin ==
    /\ dtorPc = "idle"
    /\ ~aborted
    /\ running' = FALSE
    /\ dtorPc' = "close"
    /\ UNCHANGED <<transportVars, framingVars, ioThread, wdPc, stopped,
                   posted, writes, connectRet, sends, written, orphans,
                   aborted>>

\* close(): post the lambda that closes the transport
DtorClose ==
    /\ dtorPc = "close"
    /\ ~aborted
    /\ posted' = Append(posted, Handler("close", 0))
    /\ dtorPc' = "stop"
    /\ UNCHANGED <<transportVars, framingVars, running, ioThread, wdPc,
                   stopped, writes, connectRet, sends, written, orphans,
                   aborted>>

\* ioService_->stop()
DtorStop ==
    /\ dtorPc = "stop"
    /\ ~aborted
    /\ stopped' = TRUE
    /\ dtorPc' = "joinIo"
    /\ UNCHANGED <<transportVars, framingVars, running, ioThread, wdPc,
                   posted, writes, connectRet, sends, written, orphans,
                   aborted>>

\* std::thread::join(): throws when the thread is not joinable, returns
\* once a joinable thread has finished
Joinable(th) == th \in {"running", "finished"}

\* ioThread_.join(); the exception leaves a destructor: std::terminate
DtorJoinIo ==
    /\ dtorPc = "joinIo"
    /\ ~aborted
    /\ ioThread # "running"
    /\ IF Joinable(ioThread)
       THEN ioThread' = "joined" /\ dtorPc' = "joinWd" /\ aborted' = aborted
       ELSE aborted' = TRUE /\ UNCHANGED <<ioThread, dtorPc>>
    /\ UNCHANGED <<transportVars, framingVars, running, wdPc, stopped,
                   posted, writes, connectRet, sends, written, orphans>>

\* watchdogThread_.join()
DtorJoinWd ==
    /\ dtorPc = "joinWd"
    /\ ~aborted
    /\ wdPc \in {"unstarted", "done", "joined"}
    /\ IF wdPc = "done"
       THEN wdPc' = "joined" /\ dtorPc' = "returned" /\ aborted' = aborted
       ELSE aborted' = TRUE /\ UNCHANGED <<wdPc, dtorPc>>
    /\ UNCHANGED <<transportVars, framingVars, running, ioThread, stopped,
                   posted, writes, connectRet, sends, written, orphans>>

(***************************************************************************)
(* The watchdog task: runWatchdog() in watchdogThread_.                    *)
(***************************************************************************)
WdStep(from, to) ==
    /\ wdPc = from
    /\ ~aborted
    /\ wdPc' = to

\* while (running_)
WdTop ==
    /\ WdStep("top", IF running THEN "sleep" ELSE "done")
    /\ UNCHANGED <<transportVars, framingVars, running, ioThread, stopped,
                   posted, writes, dtorPc, connectRet, sends, written,
                   orphans, aborted>>

\* the sleep is over; running_ of "running_ && ioService_->stopped()"
WdWake ==
    /\ WdStep("sleep", IF running THEN "stopped" ELSE "elseIf")
    /\ UNCHANGED <<transportVars, framingVars, running, ioThread, stopped,
                   posted, writes, dtorPc, connectRet, sends, written,
                   orphans, aborted>>

\* the replay settings not looked at
WdStopped_NoReplay ==
    /\ WdStep("stopped", IF stopped THEN "reset" ELSE "elseIf")
    /\ UNCHANGED <<transportVars, framingVars, running, ioThread, stopped,
                   posted, writes, dtorPc, connectRet, sends, written,
                   orphans, aborted>>

\* ioService_->stopped(), then the replay settings
WdStopped ==
    /\ WdStep("stopped",
              IF stopped THEN (IF replay THEN "done" ELSE "reset")
                         ELSE "elseIf")
    /\ UNCHANGED <<transportVars, framingVars, running, ioThread, stopped,
                   posted, writes, dtorPc, connectRet, sends, written,
                   orphans, aborted>>

\* the probe written on every transport
WdElseIf_AnyTransport ==
    /\ WdStep("elseIf", "top")
    /\ IF running
       THEN writes < MaxWrites /\ writes' = writes + 1
       ELSE writes' = writes
    /\ UNCHANGED <<transportVars, framingVars, running, ioThread, stopped,
                   posted, dtorPc, connectRet, sends, written, orphans,
                   aborted>>

\* else if (running_ && TcpIo): the one-byte probe, written from this thread
WdElseIf ==
    /\ WdStep("elseIf", "top")
    /\ IF running /\ isTcp
       THEN writes < MaxWrites /\ writes' = writes + 1
       ELSE writes' = writes
    /\ UNCHANGED <<transportVars, framingVars, running, ioThread, stopped,
                   posted, dtorPc, connectRet, sends, written, orphans,
                   aborted>>

\* ioService_->reset()
WdReset ==
    /\ WdStep("reset", "join")
    /\ stopped' = FALSE
    /\ UNCHANGED <<transportVars, framingVars, running, ioThread, posted,
                   writes, dtorPc, connectRet, sends, written, orphans,
                   aborted>>

\* the dead processing thread is not joined
WdJoin_NoJoin ==
    /\ WdStep("join", "connect")
    /\ UNCHANGED <<transportVars, framingVars, running, ioThread, stopped,
                   posted, writes, dtorPc, connectRet, sends, written,
                   orphans, aborted>>

\* ioThread_.join(); the exception leaves the thread function: std::terminate
WdJoin ==
    /\ wdPc = "join"
    /\ ~aborted
    /\ ioThread # "running"
    /\ IF Joinable(ioThread)
       THEN ioThread' = "joined" /\ wdPc' = "connect" /\ aborted' = aborted
       ELSE aborted' = TRUE /\ UNCHANGED <<ioThread, wdPc>>
    /\ UNCHANGED <<transportVars, framingVars, running, stopped, posted,
                   writes, dtorPc, connectRet, sends, written, orphans>>

\* while (!ioInterface_.connect()) sleep: one successful attempt; a failed
\* attempt changes nothing and is tried again
WdConnect ==
    /\ WdStep("connect", "receive")
    /\ link' = "up"
    /\ UNCHANGED <<segs, stream, pos, faults, replay, isTcp, framingVars,
                   running, ioThread, stopped, posted, writes, dtorPc,
                   connectRet, sends, written, orphans, aborted>>

\* receive() on the watchdog thread
WdReceive ==
    /\ wdPc = "receive"
    /\ ~aborted
    /\ receive("top")
    /\ UNCHANGED <<transportVars, buf, running, stopped, posted, writes,
                   dtorPc, connectRet, sends, written, aborted>>

(***************************************************************************)
(* Specification.                                                          *)
(***************************************************************************)
InitWith(segSeqs, tcp, replays) ==
    /\ segs \in segSeqs
    /\ stream = Concat(segs)
    /\ pos = 0
    /\ faults = 0
    /\ link = "down"
    /\ replay \in replays
    /\ isTcp \in tcp
    /\ telegram = NullTelegram
    /\ pending = "none"
    /\ sbfLength = 0
    /\ buf = 0
    /\ queue = <<>>
    /\ running \in BOOLEAN
    /\ ioThread = "unstarted"
    /\ wdPc = "unstarted"
    /\ stopped = FALSE
    /\ posted = <<>>
    /\ writes = 0
    /\ dtorPc = "idle"
    /\ connectRet = "none"
    /\ sends = <<>>
    /\ written = <<>>
    /\ orphans = 0
    /\ aborted = FALSE

\* the whole program on a few streams
Init == InitWith(SupervisorSegs, BOOLEAN, BOOLEAN)

\* the framing state machine on every stream, replayed from a recording
InitFraming == InitWith(SegSeqs(MaxSegs), {FALSE}, {TRUE})

IoTask ==
    \/ ReadSyncDone
    \/ ReadSbfHeaderDone
    \/ ReadSbfDone
    \/ ReadSbfOverflow
    \/ ReadStringElementsDone
    \/ OrphanReadDone
    \/ IoRunPosted
    \/ WriteDone
    \/ IoRunExit

Caller ==
    \/ Connect
    \/ Send
    \/ DtorBegin
    \/ DtorClose
    \/ DtorStop
    \/ DtorJoinIo
    \/ DtorJoinWd

Watchdog ==
    \/ WdTop
    \/ WdWake
    \/ WdStopped
    \/ WdElseIf
    \/ WdReset
    \/ WdJoin
    \/ WdConnect
    \/ WdReceive

Next == IoTask \/ Caller \/ Watchdog

Spec == Init /\ [][Next]_vars

\* the watchdog once the processing task has ended; its ticks before that
\* change nothing the framing reads and are left to Spec
WatchdogDrain == ioThread # "running" /\ (WdTop \/ WdWake \/ WdStopped)

\* the caller connects and then neither sends nor destroys the object
NextFraming ==
    \/ Connect
    \/ ReadSyncDone
    \/ ReadSbfHeaderDone
    \/ ReadSbfDone
    \/ ReadSbfOverflow
    \/ ReadStringElementsDone
    \/ IoRunExit
    \/ WatchdogDrain

SpecFraming == InitFraming /\ [][NextFraming]_vars

(***************************************************************************)
(* Streams in which sync byte 1 is repeated ahead of a valid telegram,     *)
(* at the start of the stream or after a text line that was cut short.     *)
(***************************************************************************)
MaxRepeats == 2

SyncRun(k) == [i \in 1..k |-> SYNC_BYTE_1]

RepeatSegs ==
    { <<p, SyncRun(k), t>> :
        p \in {<<>>} \cup Unterminated,
        k \in 1..MaxRepeats,
        t \in ValidTelegrams }

InitRepeat == InitWith(RepeatSegs, {FALSE}, {TRUE})

\* these streams hold no SBF header the framing refuses, so the processing
\* task never runs out of work and the watchdog has nothing to drain
NextRepeat ==
    \/ Connect
    \/ ReadSyncDone
    \/ ReadSbfHeaderDone
    \/ ReadSbfDone
    \/ ReadStringElementsDone

SpecRepeat == InitRepeat /\ [][NextRepeat]_vars

(***************************************************************************)
(* Streams of well-formed binary blocks whose bodies are made of the bytes *)
(* that end or restart a telegram on the text path.                        *)
(***************************************************************************)
MaxBlocks == 1

TerminatorBytes == {SYNC_BYTE_1, LF, CR, CONNECTION_DESCRIPTOR_FOOTER}

\* every body of such bytes that fits a block
TerminatorBodies ==
    UNION { [1..n -> TerminatorBytes] : n \in 0..(MAX_SBF_SIZE - SBF_HEADER_SIZE) }

BinarySegs ==
    UNION { [1..n -> { SbfBlock(b) : b \in TerminatorBodies }] : n \in 1..MaxBlocks }

InitBinary == InitWith(BinarySegs, {FALSE}, {TRUE})

\* a read that a transient fault cut short restarts the framing inside a
\* block, where the body bytes are scanned as text
NextBinary ==
    \/ Connect
    \/ ReadSyncDone
    \/ ReadSbfHeaderDone
    \/ ReadSbfDone
    \/ ReadStringElementsDone

SpecBinary == InitBinary /\ [][NextBinary]_vars

\* the threads are scheduled fairly; nothing makes the caller call, and
\* nothing makes a transport connect of the watchdog succeed
Shutdown == DtorClose \/ DtorStop \/ DtorJoinIo \/ DtorJoinWd

WatchdogProgress ==
    WdTop \/ WdWake \/ WdStopped \/ WdElseIf \/ WdReset \/ WdJoin \/ WdReceive

SpecFair ==
    /\ Spec
    /\ WF_vars(IoTask)
    /\ WF_vars(Shutdown)
    /\ WF_vars(WatchdogProgress)

\* the caller connects and sends while the service stops on a header that
\* declares too much and the watchdog reconnects
InitSend ==
    InitWith({ << SbfHeaderOnly(MAX_SBF_SIZE + 1),
                  TextLine(RESPONSE_SYNC_BYTE_2, RESPONSE_SYNC_BYTE_3, <<>>) >> },
             BOOLEAN, {FALSE})

SendOrdered == SendUpTo(MaxOrderedSends)

NextSend ==
    \/ Connect
    \/ SendOrdered
    \/ ReadSyncDone
    \/ ReadSbfHeaderDone
    \/ ReadStringElementsDone
    \/ IoRunPosted
    \/ WriteDone
    \/ IoRunExit
    \/ Watchdog

SpecSend == InitSend /\ [][NextSend]_vars

\* the transport fails for good: the peer is gone, the cable is pulled
TransportFail ==
    /\ link = "up"
    /\ ~aborted
    /\ link' = "lost"
    /\ UNCHANGED <<segs, stream, pos, faults, replay, isTcp, framingVars,
                   superVars>>

NextLost == Next \/ TransportFail

\* the whole program on a transport that may fail, threads scheduled fairly
SpecLost ==
    /\ Init
    /\ [][NextLost]_vars
    /\ WF_vars(IoTask)
    /\ WF_vars(Shutdown)
    /\ WF_vars(WatchdogProgress)

(***************************************************************************)
(* Observations used by the properties.                                    *)
(***************************************************************************)
\* what the consumer sees of the queue
QueueView ==
    [i \in 1..Len(queue) |-> [type |-> queue[i].type,
                              message |-> queue[i].message]]

QueueIds(q) == { q[i].id : i \in 1..Len(q) }

\* the format the sync bytes of a well-formed telegram stand for
FormatOf(seg) ==
    CASE seg[2] = SBF_SYNC_BYTE_2 -> "SBF"
      [] seg[2] = NMEA_SYNC_BYTE_2 -> "NMEA"
      [] seg[2] = NMEA_INS_SYNC_BYTE_2 -> "NMEA_INS"
      [] seg[2] = RESPONSE_SYNC_BYTE_2 ->
            IF seg[3] = ERROR_SYNC_BYTE_3 THEN "ERROR_RESPONSE" ELSE "RESPONSE"

AsTelegram(seg) == [type |-> FormatOf(seg), message |-> seg]

\* a Telegram as its constructor leaves it
IsNew(t) == t.stamp = 0 /\ t.type = "UNKNOWN" /\ t.message = <<0, 0, 0>>

\* the next state is the one resync() leaves: a new instance, a Sync0 read
Resynced ==
    /\ pending' = "readSync0"
    /\ IsNew(telegram')
    /\ telegram'.id # telegram.id
    /\ telegram'.id \notin QueueIds(queue')

\* the last n bytes consumed once the step is over
Consumed(n) == SubSeq(stream, pos' - n + 1, pos')

\* no completion handler will run any more: no read is outstanding and the
\* watchdog has left in replay mode, or the stream is used up and the
\* outstanding read asks for at least one byte
ReadIdle ==
    \/ pending = "none" /\ ioThread = "finished" /\ wdPc = "done"
    \/ /\ pos = Len(stream)
       /\ ~(pending = "readSbf" /\ BodyCount(sbfLength) = 0)

(***************************************************************************)
(* C1.  Garbage G, then a valid telegram T, read without transport faults: *)
(* the queue never holds anything but T, and when no read is outstanding   *)
(* or the stream is used up it holds exactly T.                            *)
(***************************************************************************)
C1_ResyncDeterminism ==
    (/\ Len(segs) = 2
     /\ segs[1] \in Garbage
     /\ segs[2] \in ValidTelegrams
     /\ faults = 0
     /\ connectRet = "ok")
    => /\ QueueView \in { <<>>, <<AsTelegram(segs[2])>> }
       /\ ReadIdle => QueueView = <<AsTelegram(segs[2])>>

(***************************************************************************)
(* C2.  A stream of well-formed telegrams, read without transport faults:  *)
(* the queue is a prefix of those telegrams, in order, each with the       *)
(* format of its sync bytes and its bytes unchanged, and it holds all of   *)
(* them once the stream is used up.                                        *)
(***************************************************************************)
Expected == [i \in 1..Len(segs) |-> AsTelegram(segs[i])]

C2_FifoOnePushPerTelegram ==
    (/\ \A i \in 1..Len(segs) : segs[i] \in ValidTelegrams
     /\ faults = 0
     /\ connectRet = "ok")
    => /\ Len(queue) <= Len(segs)
       /\ QueueView = SubSeq(Expected, 1, Len(queue))
       /\ ReadIdle => Len(queue) = Len(segs)

(***************************************************************************)
(* C3.  Every completion of a body read resynchronizes with a new Telegram *)
(* instance; it pushes at most the telegram being read, and only when the  *)
(* read ended without fault with length - header size bytes and the        *)
(* checksum of the block is right.                                         *)
(***************************************************************************)
BodyStep ==
    /\ pending = "readSbf"
    /\ <<telegram, pending, queue, faults>>' # <<telegram, pending, queue, faults>>

C3_BodyPushOnlyIfValid ==
    [][BodyStep =>
        /\ Resynced
        /\ \/ queue' = queue
           \/ /\ Len(queue') = Len(queue) + 1
              /\ SubSeq(queue', 1, Len(queue)) = queue
              /\ queue'[Len(queue')].id = telegram.id
              /\ queue'[Len(queue')].type = "SBF"
              /\ queue'[Len(queue')].message = Consumed(sbfLength)
              /\ isValid(Consumed(sbfLength))
              /\ faults' = faults
              /\ link = "up"
              /\ sbfLength >= SBF_HEADER_SIZE
              /\ pos' - pos = sbfLength - SBF_HEADER_SIZE
      ]_vars

\* a block with a right checksum has been pushed
C3_Witness ==
    \E i \in 1..Len(queue) : queue[i].type = "SBF" /\ Len(queue[i].message) = MAX_SBF_SIZE

(***************************************************************************)
(* C4.  While the processing task runs, a read is outstanding after every  *)
(* completion handler.                                                     *)
(***************************************************************************)
C4_ReadAlwaysPending ==
    (ioThread = "running" /\ ~aborted) => pending # "none"

(***************************************************************************)
(* C5.  A header read in full that declares more than MAX_SBF_SIZE leads   *)
(* to no body read and no push; one that declares exactly MAX_SBF_SIZE     *)
(* leads to the body read of that length.  No block declaring more than    *)
(* the maximum is ever in the queue.                                       *)
(***************************************************************************)
HeaderStep ==
    /\ pending = "readSbfHeader"
    /\ faults' = faults
    /\ pos' = pos + (SBF_HEADER_SIZE - 2)

\* the length the header bytes on the wire declare
Declared == stream[pos + 5] + 256 * stream[pos + 6]

C5_LengthBound ==
    /\ [][HeaderStep =>
            /\ Declared > MAX_SBF_SIZE =>
                  pending' # "readSbf" /\ queue' = queue
            /\ Declared = MAX_SBF_SIZE =>
                  /\ pending' = "readSbf"
                  /\ sbfLength' = MAX_SBF_SIZE
                  /\ Len(telegram'.message) = MAX_SBF_SIZE
                  /\ queue' = queue
         ]_vars
    /\ [](\A i \in 1..Len(queue) :
             queue[i].type = "SBF" => getLength(queue[i].message) <= MAX_SBF_SIZE)

\* a header declaring too much has been read, and no read follows it
C5_Witness ==
    /\ telegram.type = "SBF"
    /\ Len(telegram.message) = SBF_HEADER_SIZE
    /\ getLength(telegram.message) > MAX_SBF_SIZE
    /\ pending = "none"

(***************************************************************************)
(* C6.  A line feed read in TextAccumulate ends the telegram: when the     *)
(* last byte accumulated before it is a carriage return, the telegram is   *)
(* pushed with the bytes of the wire unchanged, otherwise nothing is       *)
(* pushed; either way the machine resynchronizes.                          *)
(***************************************************************************)
StringStep(byte) ==
    /\ pending = "readStringElements"
    /\ faults' = faults
    /\ pos' = pos + 1
    /\ stream[pos + 1] = byte

C6_TextTerminator ==
    [][StringStep(LF) =>
        LET n == Len(telegram.message) + 1
        IN  /\ Resynced
            /\ IF telegram.message[Len(telegram.message)] = CR
               THEN /\ Len(queue') = Len(queue) + 1
                    /\ SubSeq(queue', 1, Len(queue)) = queue
                    /\ queue'[Len(queue')].id = telegram.id
                    /\ queue'[Len(queue')].type = telegram.type
                    /\ queue'[Len(queue')].message = Consumed(n)
                    /\ Consumed(n) = Append(telegram.message, LF)
               ELSE queue' = queue
      ]_vars

\* a line was dropped for its missing carriage return, a later one pushed
C6_Witness ==
    /\ Len(segs) = 2
    /\ segs[1] = <<SYNC_BYTE_1, NMEA_SYNC_BYTE_2, NMEA_SYNC_BYTE_3, FILL, LF>>
    /\ segs[2] \in ValidPlainText
    /\ QueueView = <<AsTelegram(segs[2])>>

(***************************************************************************)
(* C7.  Sync byte 1 read in TextAccumulate: nothing is pushed, a new       *)
(* Telegram instance holds that byte as byte 0, and the next read is the   *)
(* one for the second sync byte.  No telegram framed on the text path is   *)
(* ever in the queue with a sync byte 1 after its first byte.              *)
(***************************************************************************)
C7_MidStreamResync ==
    /\ [][StringStep(SYNC_BYTE_1) =>
            /\ queue' = queue
            /\ telegram'.id # telegram.id
            /\ telegram'.id \notin QueueIds(queue')
            /\ telegram'.message = <<SYNC_BYTE_1, 0, 0>>
            /\ telegram'.type = "UNKNOWN"
            /\ pending' = "readSync1"
         ]_vars
    /\ [](\A i \in 1..Len(queue) :
             queue[i].type # "SBF" =>
                \A k \in 2..Len(queue[i].message) :
                    queue[i].message[k] # SYNC_BYTE_1)

\* a typed text line was abandoned for the telegram that followed it
C7_Witness ==
    /\ Len(queue) = 1
    /\ Len(segs) = 2
    /\ segs[1] \in Unterminated
    /\ segs[2] \in ValidTelegrams
    /\ QueueView = <<AsTelegram(segs[2])>>

(***************************************************************************)
(* C8.  Until a connect() has succeeded nothing is started: no read, no    *)
(* telegram, no processing task, no watchdog task.  A connect() that fails *)
(* returns failure and leaves all of that as it was; one that succeeds     *)
(* returns success with the Sync0 read pending on a new Telegram and the   *)
(* processing task spawned.                                                *)
(***************************************************************************)
NothingStarted ==
    /\ pending = "none"
    /\ telegram = NullTelegram
    /\ queue = <<>>
    /\ ioThread = "unstarted"
    /\ wdPc = "unstarted"
    /\ link = "down"

C8_Connect ==
    /\ [](connectRet # "ok" => NothingStarted)
    /\ [][connectRet' # connectRet =>
            IF connectRet' = "ok"
            THEN /\ link' = "up"
                 /\ pending' = "readSync0"
                 /\ IsNew(telegram')
                 /\ ioThread' = "running"
            ELSE /\ connectRet' = "fail"
                 /\ UNCHANGED <<link, framingVars, ioThread, wdPc>>
         ]_vars

\* a connect() has failed
C8_Witness == connectRet = "fail" /\ running /\ dtorPc = "idle"

(***************************************************************************)
(* C9.  As stated: whenever running is true after a connect() call, one    *)
(* processing task and one watchdog task are active.                       *)
(***************************************************************************)
WatchdogActive == wdPc \notin {"unstarted", "done", "joined"}

C9_OneOfEachWhileRunning ==
    (running /\ connectRet # "none" /\ ~aborted)
    => ioThread = "running" /\ WatchdogActive

(***************************************************************************)
(* C9, amended.  While running is true: after a failed connect no task     *)
(* exists; after a successful one the watchdog task is active unless it    *)
(* has exited in replay mode with the processing task terminated, and the  *)
(* processing task is running, or terminated and not yet noticed or being  *)
(* handled by the watchdog, or joined by the watchdog that is about to     *)
(* reconnect and respawn it.                                               *)
(***************************************************************************)
C9_TasksWhileRunning ==
    (running /\ connectRet # "none" /\ ~aborted)
    => IF connectRet = "fail"
       THEN ioThread = "unstarted" /\ wdPc = "unstarted"
       ELSE /\ WatchdogActive \/ (wdPc = "done" /\ replay /\ ioThread = "finished")
            /\ \/ ioThread = "running"
               \/ ioThread = "finished" /\ wdPc # "connect" /\ wdPc # "receive"
               \/ ioThread = "joined" /\ wdPc \in {"connect", "receive"}

\* the watchdog has joined the terminated processing task and reconnects
C9_Witness ==
    /\ running
    /\ connectRet = "ok"
    /\ ~aborted
    /\ ioThread = "joined"
    /\ wdPc = "connect"

(***************************************************************************)
(* C10.  Once the destructor has started after a connect() call it         *)
(* eventually returns, and when it has returned neither task is left.      *)
(***************************************************************************)
C10_ShutdownTerminates ==
    /\ [](dtorPc = "returned" => ioThread = "joined" /\ wdPc = "joined")
    /\ (connectRet # "none" /\ dtorPc = "close") ~> (dtorPc = "returned")

(***************************************************************************)
(* C11.  Outside replay mode and while running is true: the watchdog that  *)
(* finds the service stopped goes on to reset it; its join finds the       *)
(* processing task terminated and joins it; framing is restarted only from *)
(* the reconnect loop, after a transport connect has succeeded, and until  *)
(* then nothing of the framing or of the processing task changes; the      *)
(* restart finds no read outstanding and leaves a new Telegram, the Sync0  *)
(* read and a new processing task.  A telegram that follows the header     *)
(* that stopped the service is then pushed unchanged.                      *)
(***************************************************************************)
WdAt(pc) == wdPc = pc /\ wdPc' # pc /\ running

C11_Reconnect ==
    /\ [][/\ (WdAt("stopped") /\ stopped /\ ~replay) =>
                wdPc' = "reset" /\ UNCHANGED <<framingVars, ioThread, link>>
          /\ WdAt("join") =>
                /\ ioThread = "finished"
                /\ ioThread' = "joined"
                /\ wdPc' = "connect"
                /\ aborted' = aborted
                /\ UNCHANGED <<framingVars, link>>
          /\ WdAt("connect") =>
                /\ wdPc' = "receive"
                /\ link' = "up"
                /\ UNCHANGED <<framingVars, ioThread>>
          /\ (wdPc' = "receive" /\ wdPc # "receive") => wdPc = "connect"
          /\ WdAt("receive") =>
                /\ pending = "none"
                /\ ioThread = "joined"
                /\ Resynced
                /\ queue' = queue
                /\ ioThread' = "running"
                /\ wdPc' = "top"
         ]_vars
    /\ []((/\ ~replay
           /\ running
           /\ faults = 0
           /\ pending = "readSync0"
           /\ pos = Len(stream)
           /\ Len(segs) = 2
           /\ segs[1] = SbfHeaderOnly(MAX_SBF_SIZE + 1)
           /\ segs[2] \in ValidTelegrams)
          => QueueView = <<AsTelegram(segs[2])>>)

\* the telegram behind the oversize header was pushed after a reconnect
C11_Witness ==
    /\ ~replay
    /\ running
    /\ ioThread = "running"
    /\ wdPc = "top"
    /\ Len(queue) = 1
    /\ Len(segs) = 2
    /\ segs[1] = SbfHeaderOnly(MAX_SBF_SIZE + 1)
    /\ QueueView = <<AsTelegram(segs[2])>>

(***************************************************************************)
(* C12.  In replay mode the watchdog that finds the service stopped leaves *)
(* its loop and changes nothing else; it is never in the reconnect path.   *)
(* Once it has left while running is true, the processing task has         *)
(* terminated, and every further step either leaves transport, framing and *)
(* both tasks as they are or is the start of the destructor.               *)
(***************************************************************************)
Drained == replay /\ running /\ wdPc = "done"

C12_ReplayTerminal ==
    /\ [][(wdPc = "stopped" /\ wdPc' # wdPc /\ stopped /\ replay) =>
             /\ wdPc' = "done"
             /\ UNCHANGED <<transportVars, framingVars, ioThread, stopped,
                            posted, writes>>
         ]_vars
    /\ [](replay => wdPc \notin {"reset", "join", "connect", "receive"})
    /\ [](Drained => ioThread = "finished" /\ stopped)
    /\ [][Drained =>
             \/ UNCHANGED <<transportVars, framingVars, ioThread, wdPc,
                            stopped, writes, running>>
             \/ dtorPc = "idle" /\ dtorPc' = "close" /\ ~running'
         ]_vars

\* the watchdog has left in replay mode and the caller has sent since
C12_Witness == Drained /\ sends # <<>> /\ posted # <<>>

(***************************************************************************)
(* C13.  Outside replay mode, once the transport has failed the watchdog   *)
(* eventually is in its reconnect loop, the processing task joined, unless *)
(* the object is destroyed or the process has ended first.                 *)
(***************************************************************************)
C13_FaultLeadsToReconnect ==
    (link = "lost" /\ ~replay)
        ~> (\/ wdPc = "connect" /\ ioThread = "joined"
            \/ dtorPc # "idle"
            \/ aborted)

(***************************************************************************)
(* C14.  A send() with an empty payload changes nothing of the transport,  *)
(* of the framing or of the supervisor: no handler is posted, no write is  *)
(* started.                                                                *)
(***************************************************************************)
SendStep == Len(sends') = Len(sends) + 1

C14_EmptySendNoOp ==
    [][(SendStep /\ sends'[Len(sends')] = 0) =>
          UNCHANGED <<transportVars, framingVars, running, ioThread, wdPc,
                      stopped, posted, writes, written, orphans, dtorPc,
                      connectRet, aborted>>
      ]_vars

\* an empty payload was sent while the processing task runs
C14_Witness ==
    /\ sends = <<0>>
    /\ ioThread = "running"
    /\ posted = <<>>
    /\ pos > 0

(***************************************************************************)
(* C15.  The writes are started in the order of the send() calls: the      *)
(* payloads written so far, followed by those still posted, are in the     *)
(* order in which they were sent, none twice.  send() itself starts no     *)
(* write and waits for none: it posts the handler and returns.             *)
(***************************************************************************)
PostedCmds ==
    LET f[i \in 0..Len(posted)] ==
            IF i = 0 THEN <<>>
            ELSE IF posted[i].op = "write"
                 THEN Append(f[i - 1], posted[i].cmd)
                 ELSE f[i - 1]
    IN  f[Len(posted)]

\* payloads carry the number of their call: ascending is the order of calls
Ascending(seq) ==
    \A i, j \in 1..Len(seq) : i < j => seq[i] < seq[j]

C15_WriteOrder ==
    /\ [](/\ Ascending(written \o PostedCmds)
          /\ \A i \in 1..Len(written) : sends[written[i]] = written[i])
    /\ [][(SendStep /\ sends'[Len(sends')] # 0) =>
             /\ posted' = Append(posted, Handler("write", sends'[Len(sends')]))
             /\ writes' = writes
             /\ written' = written
         ]_vars

\* both payloads were written, the second after a reconnect
C15_Witness ==
    /\ written = <<1, 2>>
    /\ queue # <<>>

(***************************************************************************)
(* C16.  The footer byte read in TextAccumulate: when the format is still  *)
(* Unknown the telegram is tagged ConnectionDescriptor, pushed, and the    *)
(* machine resynchronizes; in a telegram of any other format the byte is   *)
(* accumulated, nothing is pushed and the format stays.                    *)
(***************************************************************************)
C16_FooterOnlyWhenUnknown ==
    [][StringStep(CONNECTION_DESCRIPTOR_FOOTER) =>
          IF telegram.type = "UNKNOWN"
          THEN /\ Resynced
               /\ Len(queue') = Len(queue) + 1
               /\ queue'[Len(queue')].type = "CONNECTION_DESCRIPTOR"
               /\ queue'[Len(queue')].id = telegram.id
          ELSE /\ queue' = queue
               /\ pending' = "readStringElements"
               /\ telegram' =
                    [telegram EXCEPT
                        !.message = Append(@, CONNECTION_DESCRIPTOR_FOOTER)]
      ]_vars

(***************************************************************************)
(* C17.  The format of one Telegram instance only moves forward: from      *)
(* Unknown to a provisional format or to ConnectionDescriptor, from        *)
(* Response to ErrorResponse.  Every other change of format comes with a   *)
(* new instance.                                                           *)
(***************************************************************************)
Refines(from, to) ==
    \/ from = "UNKNOWN"
    \/ from = "RESPONSE" /\ to = "ERROR_RESPONSE"

\* the instance under assembly as the step leaves it: still under assembly,
\* or pushed by the step
After(t) ==
    IF telegram'.id = t.id
    THEN {telegram'}
    ELSE { queue'[i] : i \in { j \in 1..Len(queue') : queue'[j].id = t.id } }

C17_FormatMonotone ==
    [][\A t \in After(telegram) :
          t.type # telegram.type => Refines(telegram.type, t.type)
      ]_vars

(***************************************************************************)
(* C18.  The byte read in Sync2: when it confirms the provisional format   *)
(* the same Telegram goes on to TextAccumulate with its three sync bytes,  *)
(* a Response becoming an ErrorResponse on the error byte; on every other  *)
(* byte, sync byte 1 included, nothing is pushed and the machine           *)
(* resynchronizes with a new Telegram.                                     *)
(***************************************************************************)
Confirms(type, byte) ==
    \/ type = "NMEA" /\ byte = NMEA_SYNC_BYTE_3
    \/ type = "NMEA_INS" /\ byte = NMEA_INS_SYNC_BYTE_3
    \/ type = "RESPONSE" /\ byte \in { RESPONSE_SYNC_BYTE_3,
                                       RESPONSE_SYNC_BYTE_3a,
                                       ERROR_SYNC_BYTE_3 }

Sync2Step ==
    /\ pending = "readSync2"
    /\ faults' = faults
    /\ pos' = pos + 1

Sync1Repeat ==
    /\ pending = "readSync1"
    /\ faults' = faults
    /\ pos' = pos + 1
    /\ stream[pos + 1] = SYNC_BYTE_1

RunEnd == Len(segs[1]) + Len(segs[2]) + 1

PushStep == Len(queue') = Len(queue) + 1

Pushed == queue'[Len(queue')]

C20_CaptureTimestamp ==
    [][PushStep =>
          /\ Pushed.stamp # Telegram(Pushed.id).stamp
          /\ Pushed.stamp = getTime(pos' - Len(Pushed.message) + 1)
      ]_vars

\* C20 as the handlers have it: a telegram that begins with sync byte 1
\* carries the time at which that byte was read, earlier than its push; a
\* telegram that begins with any other byte carries the stamp it was
\* constructed with.
C20_StampOfSyncByte ==
    [][PushStep =>
          IF Pushed.message[1] = SYNC_BYTE_1
          THEN /\ Pushed.stamp = getTime(pos' - Len(Pushed.message) + 1)
               /\ Pushed.stamp # Telegram(Pushed.id).stamp
               /\ Pushed.stamp < getTime(pos')
          ELSE Pushed.stamp = Telegram(Pushed.id).stamp
      ]_vars

\* an unrecognized line delivered unstamped, then a text line stamped at its
\* sync byte
C20_Witness ==
    /\ faults = 0
    /\ Len(segs) = 2
    /\ segs[1] \in UnknownFrames
    /\ segs[2] \in ValidPlainText
    /\ Len(queue) = 2
    /\ queue[1].stamp = Telegram(queue[1].id).stamp
    /\ queue[2].stamp = getTime(Len(segs[1]) + 1)

(***************************************************************************)
(* C21.  At most one read is outstanding in every reachable state: across  *)
(* connect, the framing transitions, the fault paths and the reconnect     *)
(* cycles.                                                                 *)
(***************************************************************************)
Outstanding == (IF pending = "none" THEN 0 ELSE 1) + orphans

C21_OneReadOutstanding == Outstanding <= 1

(***************************************************************************)
(* C22.  The watchdog makes a transport connect attempt only while running *)
(* is true: once shutdown has cleared the flag, the retry loop is left     *)
(* without a further attempt.                                              *)
(***************************************************************************)
C22_RunningGatesRetry ==
    [][(wdPc = "connect" /\ wdPc' = "receive") => running]_vars

(***************************************************************************)
(* C23.  A watchdog tick writes the one-byte probe if and only if it found *)
(* running true and the processing task not terminated and the transport   *)
(* is TCP.  A serial transport gets no probe, and a tick that takes the    *)
(* reconnect branch or the replay exit writes none.                        *)
(***************************************************************************)
WdMoves(from, to) == wdPc = from /\ wdPc' = to

WdMovesOn == wdPc' # wdPc /\ wdPc \notin {"unstarted", "done"}

C23_KeepaliveProbe ==
    [][/\ WdMoves("sleep", "elseIf") => ~running
       /\ WdMoves("sleep", "stopped") => running
       /\ WdMoves("stopped", "elseIf") => ~stopped /\ ioThread = "running"
       /\ (wdPc' = "elseIf" /\ wdPc # "elseIf") => wdPc \in {"sleep", "stopped"}
       /\ (wdPc = "elseIf" /\ WdMovesOn) =>
             /\ wdPc' = "top"
             /\ writes' = IF running /\ isTcp THEN writes + 1 ELSE writes
       /\ (wdPc # "elseIf" /\ WdMovesOn) => writes' = writes
       /\ (WdMovesOn /\ ~isTcp) => writes' = writes
      ]_vars

\* the probe of a tick is in flight: nothing was sent by the caller
C23_Witness ==
    /\ isTcp
    /\ running
    /\ ioThread = "running"
    /\ wdPc = "top"
    /\ writes = 1
    /\ sends = <<>>

(***************************************************************************)
(* C24.  A push hands the Telegram over: the step that pushes an instance  *)
(* replaces the current Telegram with a new one, the instance the reads    *)
(* write to is never one held by the queue, and what the queue holds is    *)
(* never changed.                                                          *)
(***************************************************************************)
C24_OwnershipTransfer ==
    /\ [][/\ Len(queue') \in {Len(queue), Len(queue) + 1}
          /\ SubSeq(queue', 1, Len(queue)) = queue
          /\ PushStep =>
                /\ Pushed.id = telegram.id
                /\ Resynced
         ]_vars
    /\ [](telegram.id \notin QueueIds(queue))
    /\ [](\A i, j \in 1..Len(queue) : queue[i].id = queue[j].id => i = j)

\* a block was pushed and the text line after it is being assembled
C24_Witness ==
    /\ Len(queue) = 1
    /\ queue[1].type = "SBF"
    /\ pending = "readStringElements"
    /\ Len(telegram.message) > 3
    /\ telegram.id # queue[1].id

(***************************************************************************)
(* C25.  Every step that reads or writes the framing state is a handler    *)
(* run by the one processing task, or the receive() of connect() or of the *)
(* watchdog's reconnect made while no processing task runs: no two such    *)
(* steps run concurrently.                                                 *)
(***************************************************************************)
FramingStep == framingVars' # framingVars

C25_FramingSerialized ==
    [][FramingStep =>
          \/ /\ ioThread = "running"
             /\ ~stopped
             /\ UNCHANGED <<ioThread, wdPc, dtorPc, connectRet, running>>
          \/ /\ ioThread # "running"
             /\ ioThread' = "running"
             /\ \/ wdPc = "receive" /\ wdPc' = "top" /\ dtorPc' = dtorPc
                \/ wdPc' \in {wdPc, "top"} /\ connectRet' = "ok"
      ]_vars

\* the watchdog has restarted the framing behind a header that was refused
C25_Witness ==
    /\ ~replay
    /\ running
    /\ ioThread = "running"
    /\ wdPc = "top"
    /\ pending = "readSync0"
    /\ pos = SBF_HEADER_SIZE
    /\ segs[1] = SbfHeaderOnly(MAX_SBF_SIZE + 1)

(***************************************************************************)
(* C26.  The binary path is driven by the declared length, not by the      *)
(* bytes read: once the second sync byte has selected SBF, one read takes  *)
(* the rest of the header and one read takes length - header size bytes    *)
(* whatever they are; a block read without fault is pushed with format SBF *)
(* and as many bytes as it declares, also when its body holds sync byte 1, *)
(* line feed, carriage return or the footer byte.                          *)
(***************************************************************************)
\* the offset in the stream at which block i starts
BlockStart(i) == Len(Concat(SubSeq(segs, 1, i - 1)))

\* the reads of block i end at these offsets into it: Sync0, Sync1, header
ReadAt(i, off) == i \in 1..Len(segs) /\ pos = BlockStart(i) + off

C26_BinaryLengthDriven ==
    /\ [][/\ ( /\ pending = "readSync1"
               /\ faults' = faults
               /\ pos' = pos + 1
               /\ stream[pos + 1] = SBF_SYNC_BYTE_2 ) =>
                 /\ pending' = "readSbfHeader"
                 /\ telegram'.type = "SBF"
                 /\ telegram'.id = telegram.id
                 /\ queue' = queue
          /\ (HeaderStep /\ Declared \in SBF_HEADER_SIZE..MAX_SBF_SIZE) =>
                 /\ pending' = "readSbf"
                 /\ sbfLength' = Declared
                 /\ Len(telegram'.message) = Declared
                 /\ telegram'.id = telegram.id
                 /\ queue' = queue
          /\ (BodyStep /\ faults' = faults) =>
                 /\ pos' = pos + (sbfLength - SBF_HEADER_SIZE)
                 /\ Resynced
                 /\ isValid(Consumed(sbfLength)) =>
                       /\ Len(queue') = Len(queue) + 1
                       /\ queue'[Len(queue')].type = "SBF"
                       /\ queue'[Len(queue')].message = Consumed(sbfLength)
                       /\ Len(queue'[Len(queue')].message) = sbfLength
         ]_vars
    /\ [](faults = 0 =>
            /\ pending = "readSync1" => \E i \in 1..Len(segs) : ReadAt(i, 1)
            /\ pending = "readSbfHeader" => \E i \in 1..Len(segs) : ReadAt(i, 2)
            /\ pending = "readSbf" =>
                  \E i \in 1..Len(segs) : ReadAt(i, SBF_HEADER_SIZE)
            /\ pending # "readStringElements"
            /\ pending = "readSync0" =>
                  \E n \in 0..Len(segs) :
                      /\ pos = BlockStart(n + 1)
                      /\ QueueView = [i \in 1..n |-> AsTelegram(segs[i])])

\* a block whose body is a line feed and a sync byte 1 has been pushed whole
C26_Witness ==
    /\ faults = 0
    /\ pending = "readSync0"
    /\ Len(queue) = 1
    /\ queue[1].type = "SBF"
    /\ Len(queue[1].message) = MAX_SBF_SIZE
    /\ queue[1].message[SBF_HEADER_SIZE + 1] = LF
    /\ queue[1].message[SBF_HEADER_SIZE + 2] = SYNC_BYTE_1

(***************************************************************************)
(* C27.  Every body read asks for 0 .. MAX_SBF_SIZE - SBF_HEADER_SIZE      *)
(* bytes and leaves the header already read in the buffer: a header read   *)
(* in full that is followed by a body read has set a count in that range   *)
(* and a buffer of at least SBF_HEADER_SIZE bytes.                         *)
(***************************************************************************)
C27_BodyCountInRange ==
    [][(HeaderStep /\ pending' = "readSbf") =>
          /\ BodyCount(sbfLength') \in 0..(MAX_SBF_SIZE - SBF_HEADER_SIZE)
          /\ Len(telegram'.message) >= SBF_HEADER_SIZE
      ]_vars

(***************************************************************************)
(* C28.  Shutdown against a watchdog tick: however the two interleave, no  *)
(* join is called on a processing-thread handle that was joined already,   *)
(* and once the destructor has begun the watchdog starts no processing     *)
(* thread and does not restart the framing.                                *)
(***************************************************************************)
\* join() is called on the handle of the processing thread
JoinsIoThread ==
    /\ wdPc = "join" \/ dtorPc = "joinIo"
    /\ <<ioThread, aborted>>' # <<ioThread, aborted>>

C28_ShutdownVersusTick ==
    [][/\ JoinsIoThread => ioThread # "joined"
       /\ (wdPc = "receive" /\ wdPc' # wdPc) => dtorPc = "idle"
       /\ (ioThread # "running" /\ ioThread' = "running") => dtorPc = "idle"
      ]_vars

(***************************************************************************)
(* C29.  While the processing thread runs, every operation on the          *)
(* transport stream (a read or a write issued, the close) is started by a  *)
(* step of that thread: send() and the destructor only post handlers, and  *)
(* the watchdog starts none.                                               *)
(***************************************************************************)
\* a read or a write is issued on the stream, or the stream is closed
StreamOpStarted ==
    \/ writes' > writes
    \/ pending' # pending /\ pending' # "none"
    \/ orphans' > orphans
    \/ link' = "closed" /\ link # "closed"

\* the step is none of the caller's and none of the watchdog's
IoContextStep == UNCHANGED <<wdPc, dtorPc, connectRet, sends>>

C29_StreamOpsInIoContext ==
    [][(ioThread = "running" /\ StreamOpStarted) => IoContextStep]_vars

(***************************************************************************)
(* C30.  The close that the destructor posts is carried out: the           *)
(* processing thread does not end while the posted close is still waiting  *)
(* to be run, and the destructor does not return from a running task with  *)
(* the transport left open.                                                *)
(***************************************************************************)
ClosePosted == \E i \in 1..Len(posted) : posted[i].op = "close"

C30_CloseCarriedOut ==
    [][/\ (ioThread = "running" /\ ioThread' # "running") => ~ClosePosted
       /\ (dtorPc # "returned" /\ dtorPc' = "returned") => link = "closed"
      ]_vars

====
